---- MODULE Spec2Model ----
(***************************************************************************)
(* Streamlit_app.py: the form-and-results page of the research assistant. *)
(*                                                                         *)
(* Every browser session runs the script main() in a thread of its own;   *)
(* the sessions of one process share the st.cache_resource cache that     *)
(* holds the ResearchAssistant.  A session is "idle" when its script run  *)
(* has ended and the page is displayed; a form submission or a click on   *)
(* an example button starts a new run, which first discards the elements  *)
(* of the previous run.  A run that searches goes through                 *)
(* get_research_assistant (cache read, compute lock, second cache read,   *)
(* construction), then awaits process_research_question, then renders.    *)
(*                                                                         *)
(* out[s] holds the elements the run wrote to the main area, in order.    *)
(* The static elements (page title, caption, sidebar texts) are the same  *)
(* in every run and are left out.  A formatted string is modelled as the  *)
(* tuple of its literal and interpolated parts.  The elapsed time of the  *)
(* summary line is left out of the summary text.                          *)
(***************************************************************************)
EXTENDS Integers, Sequences, FiniteSets, TLC

VARIABLES
    pc,            \* per session: position of the script thread
    trigger,       \* per session: what started the current run
    question,      \* per session: value of the text input of the form
    max_papers,    \* per session: value of the select box of the form
    out,           \* per session: elements rendered by the current run
    ncalls,        \* per session: process_research_question calls of the run
    call,          \* per session: arguments and target of the run's call
    reply,         \* per session: what the run's search gave back
    cache,         \* process: the st.cache_resource entry (0 = no entry)
    lock,          \* process: holder of the compute lock (0 = free)
    instances,     \* process: ResearchAssistant objects constructed so far
    used,          \* process: instances process_research_question ran on
    searched       \* process: some run entered run_search

vars == <<pc, trigger, question, max_papers, out, ncalls, call, reply,
          cache, lock, instances, used, searched>>

(* ------------------------------ bounds -------------------------------- *)

NumSessions == 2
MaxResults == 4
ScoreBelow == 2
ScoreAbove == 2

(* ------------------------- program constants -------------------------- *)

\* line 52: options=[3, 5, 10, 15] (and a variant with another last option)
options_other_last == <<3, 5, 10, 20>>
options == <<3, 5, 10, 15>>
index == 1
HighThreshold == 8
MediumThreshold == 6
ExpandedCount == 3
ScaleTop == 10

example_questions ==
    << "How does exercise affect depression?",
       "What are the benefits of meditation?",
       "Does caffeine improve athletic performance?",
       "How does screen time affect children?",
       "What causes burnout in nurses?" >>

EmptyWarning == "Please enter a research question!"
NoPapersWarning ==
    "No papers found. Try rephrasing your question or using different keywords."
ApiKeyHint == "Please check your API keys and try again."

(* --------------------------- input domains ---------------------------- *)

Sessions == 1..NumSessions
Questions == {"", "q1", "q2"}
Titles == {"t1", "t2"}
Messages == {"Invalid API key", "timeout"}
ConstructMessages == {"ANTHROPIC_API_KEY not set"}
Defects == {"none", "title", "authors", "abstract"}
Scores == (0 - ScoreBelow)..(ScaleTop + ScoreAbove)

SeqUpTo(S, n) == UNION {[1..k -> S] : k \in 0..n}

\* Lists of any length up to MaxResults, of well-formed and malformed papers
LongResults ==
    SeqUpTo([title : Titles, relevance_score : {7}, defect : {"none", "authors"}],
            MaxResults)
\* One paper with any score and any defect
ScoredResults ==
    {<<p>> : p \in [title : {"t1"}, relevance_score : Scores, defect : Defects]}
PageResults == LongResults \cup ScoredResults
\* What the sessions that share the cache submit and are given
SharedQuestions == {"", "q1"}
SharedResults == {<<>>, <<[title |-> "t1", relevance_score |-> 9, defect |-> "none"]>>}

\* the cache entry before a value is stored
NoEntry == 0
NoCall == [made |-> FALSE]
NoReply == [kind |-> "none"]
NoException == [raised |-> FALSE, msg |-> ""]
Raised(m) == [raised |-> TRUE, msg |-> m]

(* ------------------------------ rendering ----------------------------- *)

Element(kind, text) == [kind |-> kind, text |-> text]

\* line 60: if submitted and question (and the variant: if submitted)
ShouldSearchNoQuestion(submitted, q) == submitted
ShouldSearch(submitted, q) == submitted /\ q # ""

\* line 114: elif submitted and not question
ShouldWarnEmpty(submitted, q) == submitted /\ q = ""

\* line 72: if results (and the variant: if results is not None)
HasResultsNotNone(results) == TRUE
HasResults(results) == Len(results) > 0

\* line 78: expanded=(i <= 3) (and the variant: i < 3)
ExpandedFirstTwo(i) == i < ExpandedCount
Expanded(i) == i <= ExpandedCount

\* lines 89-94: the element kind of the relevance badge (and two variants:
\* strict comparisons, and scores outside 0..10 sent to the low tier)
TierStrict(score) ==
    IF score > HighThreshold THEN "success"
    ELSE IF score > MediumThreshold THEN "warning"
    ELSE "info"
TierValidated(score) ==
    IF score < 0 \/ score > ScaleTop THEN "info"
    ELSE IF score >= HighThreshold THEN "success"
    ELSE IF score >= MediumThreshold THEN "warning"
    ELSE "info"
Tier(score) ==
    IF score >= HighThreshold THEN "success"
    ELSE IF score >= MediumThreshold THEN "warning"
    ELSE "info"

\* lines 88-94
Badge(score) == Element(Tier(score), <<"Relevance: ", score, "/10">>)

\* the message of the exception an attribute of a malformed paper raises
DefectMessage(d) ==
    CASE d = "title" -> "object has no attribute 'title'"
      [] d = "authors" -> "'NoneType' object is not subscriptable"
      [] d = "abstract" -> "object has no attribute 'abstract'"
      [] OTHER -> ""

\* lines 80-105: what the body of the expander holds when the block ends or
\* is left by an exception
SectionBody(paper) ==
    IF paper.defect = "authors" THEN <<>>
    ELSE LET upto_reason ==
                << Element("write", "Authors"), Element("write", "Journal"),
                   Badge(paper.relevance_score),
                   Element("write", "Why relevant") >>
         IN IF paper.defect = "abstract" THEN upto_reason
            ELSE upto_reason \o << Element("write", "Abstract"),
                                   Element("markdown", "View on PubMed"),
                                   Element("divider", "") >>

\* lines 78-105: one pass of the loop body
RenderPaper(i, paper) ==
    IF paper.defect = "title"
    THEN [elems |-> <<>>, exc |-> Raised(DefectMessage("title"))]
    ELSE [elems |-> << [kind |-> "expander",
                        text |-> <<i, ". ", paper.title>>,
                        expanded |-> Expanded(i),
                        body |-> SectionBody(paper)] >>,
          exc |-> IF paper.defect = "none" THEN NoException
                  ELSE Raised(DefectMessage(paper.defect))]

\* lines 77-105: for i, paper in enumerate(results, 1)
RECURSIVE RenderLoop(_, _)
RenderLoop(results, i) ==
    IF i > Len(results) THEN [elems |-> <<>>, exc |-> NoException]
    ELSE LET p == RenderPaper(i, results[i])
         IN IF p.exc.raised THEN p
            ELSE LET rest == RenderLoop(results, i + 1)
                 IN [elems |-> p.elems \o rest.elems, exc |-> rest.exc]

\* lines 72-108: the rest of the try block once run_search has returned
RenderResults(results) ==
    IF HasResults(results)
    THEN LET loop == RenderLoop(results, 1)
         IN [elems |-> << Element("success",
                                  <<"Found ", Len(results), " relevant papers">>) >>
                       \o loop.elems,
             exc |-> loop.exc]
    ELSE [elems |-> << Element("warning", NoPapersWarning) >>, exc |-> NoException]

\* lines 110-112: except Exception as e (and the variant that shows a fixed
\* text and no hint)
RenderErrorNoHint(m) == << Element("error", <<"Error: ", "search failed">>) >>
RenderError(m) ==
    << Element("error", <<"Error: ", m>>), Element("write", ApiKeyHint) >>

\* lines 62-112: the try statement from line 72 on
TryRender(results) ==
    LET body == RenderResults(results)
    IN IF body.exc.raised THEN body.elems \o RenderError(body.exc.msg)
       ELSE body.elems

(* ------------------------------- state -------------------------------- *)

Init ==
    /\ pc = [s \in Sessions |-> "idle"]
    /\ trigger = [s \in Sessions |-> "load"]
    /\ question = [s \in Sessions |-> ""]
    /\ max_papers = [s \in Sessions |-> options[index + 1]]
    /\ out = [s \in Sessions |-> <<>>]
    /\ ncalls = [s \in Sessions |-> 0]
    /\ call = [s \in Sessions |-> NoCall]
    /\ reply = [s \in Sessions |-> NoReply]
    /\ cache = NoEntry
    /\ lock = 0
    /\ instances = 0
    /\ used = {}
    /\ searched = FALSE

(* ------------------------------ actions ------------------------------- *)

\* a new script run discards what the previous run rendered and computed;
\* a session blocks in its run (section 5 of the specification: one request
\* at a time per session), so the next interaction finds the run ended
StartRun(s, how) ==
    /\ pc[s] = "idle"
    /\ trigger' = [trigger EXCEPT ![s] = how]
    /\ ncalls' = [ncalls EXCEPT ![s] = 0]
    /\ call' = [call EXCEPT ![s] = NoCall]
    /\ reply' = [reply EXCEPT ![s] = NoReply]

\* lines 26-27, 67: search_papers awaits process_research_question on the
\* assistant it obtained, with the arguments main passed to run_search
StartCall(s, assistant) ==
    /\ ncalls' = [ncalls EXCEPT ![s] = @ + 1]
    /\ call' = [call EXCEPT ![s] = [made |-> TRUE,
                                    question |-> question[s],
                                    max_papers |-> max_papers[s],
                                    instance |-> assistant]]
    /\ used' = used \cup {assistant}
    /\ pc' = [pc EXCEPT ![s] = "calling"]

\* lines 39-67, 114-115: the form is submitted with question q and the
\* option mp selected; the run reaches run_search, or warns, and ends
Submit(s, q, mp) ==
    /\ StartRun(s, "submit")
    /\ question' = [question EXCEPT ![s] = q]
    /\ max_papers' = [max_papers EXCEPT ![s] = mp]
    /\ IF ShouldSearch(TRUE, q)
       THEN /\ pc' = [pc EXCEPT ![s] = "lookup"]
            /\ out' = [out EXCEPT ![s] = <<>>]
            /\ searched' = TRUE
       ELSE /\ pc' = pc
            /\ out' = [out EXCEPT ![s] =
                          IF ShouldWarnEmpty(TRUE, q)
                          THEN << Element("warning", EmptyWarning) >>
                          ELSE <<>>]
            /\ searched' = searched
    /\ UNCHANGED <<cache, lock, instances, used>>

\* lines 20-21, 26: get_research_assistant, the cache read made without
\* the lock: a hit returns the cached instance, a miss goes for the lock
CacheRead(s) ==
    /\ pc[s] = "lookup"
    /\ IF cache # NoEntry
       THEN /\ StartCall(s, cache)
            /\ UNCHANGED <<trigger, reply>>
       ELSE /\ pc' = [pc EXCEPT ![s] = "wait"]
            /\ UNCHANGED <<trigger, ncalls, call, reply, used>>
    /\ UNCHANGED <<question, max_papers, out, cache, lock, instances, searched>>

\* line 20: the cache's compute lock is taken before the value is computed
AcquireLock(s) ==
    /\ pc[s] = "wait"
    /\ lock = 0
    /\ lock' = s
    /\ pc' = [pc EXCEPT ![s] = "compute"]
    /\ UNCHANGED <<trigger, question, max_papers, out, ncalls, call, reply,
                   cache, instances, used, searched>>

\* line 20: the cache is read again once the lock is held
SecondRead == cache

\* line 20: @st.cache_resource stores the value the function returned (and
\* the variant without the decorator, which stores nothing)
StoredNowhere(assistant) == NoEntry
Stored(assistant) == assistant

\* lines 20-22, 26-27, 110-112: under the lock, a value another session
\* stored meanwhile is returned; otherwise ResearchAssistant() runs, and
\* either its instance is stored and returned, or its exception leaves the
\* cache empty and reaches the except clause of main
Compute(s, constructed) ==
    /\ pc[s] = "compute"
    /\ lock = s
    /\ lock' = 0
    /\ IF SecondRead # NoEntry
       THEN /\ StartCall(s, SecondRead)
            /\ UNCHANGED <<trigger, reply, out, cache, instances>>
       ELSE IF ~constructed.raised
       THEN /\ instances' = instances + 1
            /\ cache' = Stored(instances + 1)
            /\ StartCall(s, instances + 1)
            /\ UNCHANGED <<trigger, reply, out>>
       ELSE /\ reply' = [reply EXCEPT ![s] = [kind |-> "raised",
                                              by |-> "constructor",
                                              msg |-> constructed.msg]]
            /\ out' = [out EXCEPT ![s] = RenderError(constructed.msg)]
            /\ pc' = [pc EXCEPT ![s] = "idle"]
            /\ UNCHANGED <<trigger, ncalls, call, used, cache, instances>>
    /\ UNCHANGED <<question, max_papers, searched>>

\* lines 27, 67-108: process_research_question returns results and the
\* run renders them
Return(s, results) ==
    /\ pc[s] = "calling"
    /\ reply' = [reply EXCEPT ![s] = [kind |-> "returned", results |-> results]]
    /\ out' = [out EXCEPT ![s] = TryRender(results)]
    /\ pc' = [pc EXCEPT ![s] = "idle"]
    /\ UNCHANGED <<trigger, question, max_papers, ncalls, call,
                   cache, lock, instances, used, searched>>

\* lines 27, 67, 110-112: process_research_question raises an Exception
Raise(s, m) ==
    /\ pc[s] = "calling"
    /\ reply' = [reply EXCEPT ![s] = [kind |-> "raised", by |-> "call", msg |-> m]]
    /\ out' = [out EXCEPT ![s] = RenderError(m)]
    /\ pc' = [pc EXCEPT ![s] = "idle"]
    /\ UNCHANGED <<trigger, question, max_papers, ncalls, call,
                   cache, lock, instances, used, searched>>

\* variant of lines 137-139: the example is copied into the form
ClickExampleFills(s, e) ==
    /\ StartRun(s, "example")
    /\ out' = [out EXCEPT ![s] = <<>>]
    /\ question' = [question EXCEPT ![s] = example_questions[e]]
    /\ UNCHANGED <<pc, max_papers, cache, lock, instances, used, searched>>

\* lines 57-60, 114, 137-139: example button e is clicked.  The run it
\* starts has submitted = False, renders nothing in the main area and
\* reaches st.rerun(); the run that follows has no button set either
ClickExample(s, e) ==
    /\ StartRun(s, "example")
    /\ out' = [out EXCEPT ![s] =
                  IF ShouldWarnEmpty(FALSE, question[s])
                  THEN << Element("warning", EmptyWarning) >>
                  ELSE <<>>]
    /\ UNCHANGED <<pc, question, max_papers, cache, lock, instances, used, searched>>

ConstructOutcomes == {NoException} \cup {Raised(m) : m \in ConstructMessages}

NextOver(S, Q, R) ==
    \E s \in S :
        \/ \E q \in Q, i \in DOMAIN options : Submit(s, q, options[i])
        \/ CacheRead(s)
        \/ AcquireLock(s)
        \/ \E c \in ConstructOutcomes : Compute(s, c)
        \/ \E r \in R : Return(s, r)
        \/ \E m \in Messages : Raise(s, m)
        \/ \E e \in DOMAIN example_questions : ClickExample(s, e)

\* one session, with result lists of every shape
Next == NextOver({1}, Questions, PageResults)
Spec == Init /\ [][Next]_vars

\* the sessions of one process, which share the cache
NextShared == NextOver(Sessions, SharedQuestions, SharedResults)
SpecShared == Init /\ [][NextShared]_vars

(* ------------------------------- claims ------------------------------- *)

\* the run of session s was started by a form submission and has ended
Finished(s) == trigger[s] = "submit" /\ pc[s] = "idle"
Shown(s, kind) == {i \in DOMAIN out[s] : out[s][i].kind = kind}
Sections(s) == SelectSeq(out[s], LAMBDA e : e.kind = "expander")
TierKinds == {"success", "warning", "info"}
Badges(section) == SelectSeq(section.body, LAMBDA e : e.kind \in TierKinds)
WellFormed(results) == \A i \in DOMAIN results : results[i].defect = "none"
Min(a, b) == IF a < b THEN a ELSE b

\* C1: a submission with the empty question never invokes
\* process_research_question and ends with exactly the validation warning
\* 'Please enter a research question!' on the page, whatever max_papers is.
C1_EmptyQuestionWarns ==
    \A s \in Sessions :
        (trigger[s] = "submit" /\ question[s] = "") =>
            /\ pc[s] = "idle"
            /\ ncalls[s] = 0
            /\ ~call[s].made
            /\ out[s] = << [kind |-> "warning",
                            text |-> "Please enter a research question!"] >>

C1_Witness ==
    \E s \in Sessions :
        /\ trigger[s] = "submit" /\ question[s] = "" /\ max_papers[s] = 15
        /\ Shown(s, "warning") # {}

\* C2 as stated: every ended submission with a non-empty question has invoked
\* process_research_question exactly once, with the submitted question and
\* a max_papers of {3,5,10,15}.
C2_ExactlyOnceAlways ==
    \A s \in Sessions :
        (Finished(s) /\ question[s] # "") =>
            /\ ncalls[s] = 1
            /\ call[s].made
            /\ call[s].question = question[s]
            /\ call[s].max_papers \in {3, 5, 10, 15}

\* C2 amended: a submission with a non-empty question invokes
\* process_research_question at most once; not at all when constructing the
\* ResearchAssistant raised, and exactly once otherwise, with the submitted
\* question and the selected max_papers, which is one of {3,5,10,15}.
C2_AtMostOnce ==
    \A s \in Sessions :
        /\ ncalls[s] <= 1
        /\ call[s].made <=> ncalls[s] = 1
        /\ call[s].made =>
              /\ trigger[s] = "submit" /\ question[s] # ""
              /\ call[s].question = question[s]
              /\ call[s].max_papers = max_papers[s]
              /\ call[s].max_papers \in {3, 5, 10, 15}
        /\ (trigger[s] = "submit" /\ question[s] # "") =>
              /\ pc[s] = "calling" => ncalls[s] = 1
              /\ pc[s] = "idle" =>
                    IF reply[s].kind = "raised" /\ reply[s].by = "constructor"
                    THEN ncalls[s] = 0
                    ELSE ncalls[s] = 1

C2_Witness ==
    \E s \in Sessions :
        /\ Finished(s) /\ question[s] = "q2" /\ ncalls[s] = 1
        /\ reply[s].kind = "raised" /\ reply[s].by = "call"
        /\ call[s].max_papers = 10

\* C3: when the search raised an exception with message M, the page holds
\* the error element 'Error: M' followed by the API key hint and nothing
\* else: no success message, no warning, no paper section.
C3_ErrorShown ==
    \A s \in Sessions :
        reply[s].kind = "raised" =>
            out[s] = << [kind |-> "error", text |-> <<"Error: ", reply[s].msg>>],
                        [kind |-> "write",
                         text |-> "Please check your API keys and try again."] >>

C3_Witness ==
    \E s \in Sessions :
        /\ reply[s].kind = "raised" /\ reply[s].by = "call"
        /\ reply[s].msg = "Invalid API key"
        /\ Shown(s, "error") # {}

\* C4: when the search returned the empty sequence, the page holds the
\* 'No papers found' warning and nothing else: no section, no success
\* summary, no error message.
C4_EmptyResultWarns ==
    \A s \in Sessions :
        (reply[s].kind = "returned" /\ reply[s].results = <<>>) =>
            /\ out[s] = << [kind |-> "warning", text |-> NoPapersWarning] >>
            /\ Shown(s, "expander") = {}
            /\ Shown(s, "success") = {}
            /\ Shown(s, "error") = {}

C4_Witness ==
    \E s \in Sessions :
        /\ reply[s].kind = "returned" /\ reply[s].results = <<>>
        /\ Shown(s, "warning") # {}

\* C5: for a returned sequence of N >= 1 PaperResults (papers that have the
\* fields of the data model), exactly N sections are rendered in the order
\* received, section i is titled '<i>. <title of result i>', and exactly the
\* first min(N,3) sections are expanded, all later ones collapsed.
C5_SectionsInOrder ==
    \A s \in Sessions :
        (/\ reply[s].kind = "returned"
         /\ Len(reply[s].results) >= 1
         /\ WellFormed(reply[s].results)) =>
            LET results == reply[s].results
                N == Len(results)
            IN /\ Len(Sections(s)) = N
               /\ \A i \in 1..N :
                     /\ Sections(s)[i].text = <<i, ". ", results[i].title>>
                     /\ Sections(s)[i].expanded <=> i <= 3
               /\ Cardinality({i \in 1..N : Sections(s)[i].expanded}) = Min(N, 3)
               /\ Len(out[s]) = N + 1
               /\ \A i \in 1..N : out[s][i + 1] = Sections(s)[i]

C5_Witness ==
    \E s \in Sessions :
        /\ reply[s].kind = "returned"
        /\ Len(reply[s].results) = 4
        /\ WellFormed(reply[s].results)
        /\ reply[s].results[1].title # reply[s].results[2].title
        /\ Sections(s)[3].expanded /\ ~Sections(s)[4].expanded

\* C6: the tier shown for a paper is decided by its relevance_score alone:
\* score >= 8 'success', 6 <= score < 8 'warning', score < 6 'info' (so 9 and 8
\* give 'success', 7 and 6 'warning', 4 'info'), and every section whose
\* relevance block ran shows exactly one tier.
C6_TierByThreshold ==
    /\ Tier(9) = "success" /\ Tier(8) = "success"
    /\ Tier(7) = "warning" /\ Tier(6) = "warning"
    /\ Tier(4) = "info"
    /\ \A s \in Sessions :
          reply[s].kind = "returned" =>
              \A i \in DOMAIN Sections(s) :
                  LET paper == reply[s].results[i]
                      score == paper.relevance_score
                      shown == Badges(Sections(s)[i])
                  IN /\ Len(shown) <= 1
                     /\ paper.defect \in {"none", "abstract"} => Len(shown) = 1
                     /\ Len(shown) = 1 =>
                           /\ score >= 8 => shown[1].kind = "success"
                           /\ (6 <= score /\ score < 8) => shown[1].kind = "warning"
                           /\ score < 6 => shown[1].kind = "info"
                           /\ shown[1].text = <<"Relevance: ", score, "/10">>

C6_Witness ==
    \E s \in Sessions :
        /\ reply[s].kind = "returned" /\ Len(Sections(s)) = 1
        /\ reply[s].results[1].relevance_score = 8
        /\ Len(Badges(Sections(s)[1])) = 1
        /\ Badges(Sections(s)[1])[1].kind = "success"

\* C7 as stated: every paper whose relevance_score lies outside 0..10, below
\* or above, is rendered and shown in the 'info' (low) tier.
C7_OutOfRangeIsLow ==
    \A s \in Sessions :
        reply[s].kind = "returned" =>
            \A i \in DOMAIN Sections(s) :
                LET paper == reply[s].results[i]
                IN (/\ paper.defect = "none"
                    /\ (paper.relevance_score < 0 \/ paper.relevance_score > 10)) =>
                       /\ Len(Badges(Sections(s)[i])) = 1
                       /\ Badges(Sections(s)[i])[1].kind = "info"

\* C7 amended: no relevance_score outside 0..10 is rejected (the paper is
\* rendered, with its score, and no error is shown); a score below 0 is
\* shown in the 'info' (low) tier and a score above 10 in the 'success'
\* (high) tier.
C7_OutOfRangeByThreshold ==
    \A s \in Sessions :
        reply[s].kind = "returned" =>
            \A i \in DOMAIN reply[s].results :
                LET paper == reply[s].results[i]
                    score == paper.relevance_score
                IN (score < 0 \/ score > 10) =>
                      /\ WellFormed(reply[s].results) =>
                            Shown(s, "error") = {} /\ i \in DOMAIN Sections(s)
                      /\ (i \in DOMAIN Sections(s) /\ paper.defect # "authors") =>
                            LET shown == Badges(Sections(s)[i])
                            IN /\ Len(shown) = 1
                               /\ shown[1].text = <<"Relevance: ", score, "/10">>
                               /\ score < 0 => shown[1].kind = "info"
                               /\ score > 10 => shown[1].kind = "success"

C7_Witness ==
    \E s \in Sessions :
        /\ reply[s].kind = "returned" /\ Len(Sections(s)) = 1
        /\ reply[s].results[1].relevance_score = 11
        /\ reply[s].results[1].defect = "none"
        /\ Badges(Sections(s)[1])[1].kind = "success"

\* C8: a click on an example button invokes nothing and changes nothing but
\* the page: the page it leaves shows no search outcome, no call of
\* process_research_question belongs to it, and the step leaves the
\* question field, the selection, the cache and the set of calls made as
\* they were, whatever submissions and clicks came before.
C8_ExampleClickInert ==
    /\ [](\A s \in Sessions :
             trigger[s] = "example" =>
                 /\ pc[s] = "idle"
                 /\ out[s] = <<>>
                 /\ ncalls[s] = 0
                 /\ ~call[s].made
                 /\ reply[s].kind = "none")
    /\ [][\A s \in Sessions :
             (pc[s] = "idle" /\ trigger'[s] = "example") =>
                 /\ question'[s] = question[s]
                 /\ max_papers'[s] = max_papers[s]
                 /\ pc'[s] = "idle"
                 /\ <<cache, lock, instances, used>>' = <<cache, lock, instances, used>>
         ]_vars

C8_Witness ==
    \E s \in Sessions :
        /\ trigger[s] = "example" /\ question[s] = "q1" /\ out[s] = <<>>
        /\ instances = 1

\* C9 as stated: a submission with a non-empty question that has ended shows
\* exactly one of the outcomes success (summary), empty (no-papers warning)
\* and error (error message), also when an exception was raised while the
\* returned papers were rendered.
C9_OneOutcome ==
    \A s \in Sessions :
        (Finished(s) /\ question[s] # "") =>
            LET success == Shown(s, "success") # {}
                empty == \E i \in Shown(s, "warning") : out[s][i].text = NoPapersWarning
                error == Shown(s, "error") # {}
            IN /\ success \/ empty \/ error
               /\ ~(success /\ empty) /\ ~(success /\ error) /\ ~(empty /\ error)

\* C10: in any interleaving of the searches of the sessions of one process
\* at most one ResearchAssistant instance is ever constructed, none before
\* a search has begun, the cache keeps it once it is stored, and every call
\* of process_research_question of every session is made on it, also after
\* searches in which the construction or the call raised.
C10_OneSharedInstance ==
    /\ instances <= 1
    /\ instances > 0 => searched
    /\ cache = instances
    /\ used \subseteq {1}
    /\ \A s \in Sessions : call[s].made => call[s].instance = 1 /\ cache = 1

C10_Witness ==
    \E s, t \in Sessions :
        /\ s # t
        /\ reply[s].kind = "raised" /\ reply[s].by = "constructor"
        /\ reply[t].kind = "raised" /\ reply[t].by = "call"
        /\ call[t].made /\ call[t].instance = 1
        /\ instances = 1

====
